---- MODULE Spec2Model ----
(***************************************************************************)
(* Model of the maps of ts-utils: Map<E> (entries are own properties of    *)
(* the object, next to the methods it inherits from its prototype) and     *)
(* GuardedMap<E> (entries are records of the private array _elements).     *)
(* A collection is a record [variant, items]: items is the sequence of     *)
(* [key, value] pairs, the own properties in creation order for a Map and  *)
(* the array _elements for a GuardedMap.                                   *)
(*                                                                         *)
(* JavaScript values are written as strings: "undefined", the numbers      *)
(* "0", "1", "2", "''" (the empty string) and "function" (a method of the  *)
(* class).                                                                 *)
(***************************************************************************)
EXTENDS Integers, Sequences, FiniteSets, TLC

\* ---------------------------------------------------------------- bounds
MaxOther == 2      \* longest collection passed as otherMap
MaxCalls == 3      \* most successful add (and remove) calls that are counted
MaxArray == 3      \* longest array handed to the factory
MaxHeld == 2       \* longest array a caller makes of a returned array

\* ------------------------------------------------------------ JS values
Undefined == "undefined"
Fn == "function"

\* element values a caller passes in: one falsy number and two truthy ones
Values == {"0", "1", "2"}

\* element values of the collections passed as otherMap
OtherValues == {"0", "2"}

\* keys a caller uses: two ordinary names and the name of a method
Keys == {"a", "b", "size"}

\* keys and values of the calls made while a conversion result is held
CopyKeys == {"a", "size"}
CopyValues == {"0", "1"}

\* names every Map instance inherits as functions from Map.prototype
MapMethods ==
    {"add", "get", "remove", "size", "set", "forEach", "toObjectsArray",
     "keysToArray", "valuesToArray", "includesKey", "includes", "keyOf",
     "concat", "equals", "every", "some", "toJSON", "toBasicMap",
     "toGuardedMap"}

\* names every object inherits as functions from Object.prototype
ObjectMethods ==
    {"constructor", "hasOwnProperty", "isPrototypeOf", "propertyIsEnumerable",
     "toLocaleString", "toString", "valueOf"}

\* compare functions a caller may supply ("none": the argument is omitted)
Compares == {"none", "strict", "truthiness"}

\* the empty string
EmptyString == "''"

\* values a caller searches for: the element values and the empty string
SearchValues == Values \cup {EmptyString}

\* compare functions a caller may pass to includes and keyOf: those above
\* and one that returns false whatever it is given
SearchCompares == Compares \cup {"never"}

\* JS ToBoolean on the modelled values
Truthy(v) == v \notin {Undefined, "0", EmptyString}

\* a caller-supplied compare(mapEl, searchEl)
Compare(c, x, y) ==
    IF c = "strict" THEN x = y
    ELSE IF c = "never" THEN FALSE
    ELSE Truthy(x) = Truthy(y)

\* x == y: the number 0 and the empty string are equal, though not identical
LooseEquals(x, y) == x = y \/ {x, y} = {"0", EmptyString}

\* ------------------------------------------------------------- outcomes
\* what a call does: it returns (val: the value, num: a returned number)
\* or throws (val: the kind of error)
Ret(v) == [status |-> "return", val |-> v, num |-> 0]
RetNum(n) == [status |-> "return", val |-> "number", num |-> n]
RetBool(b) == [status |-> "return", val |-> IF b THEN "true" ELSE "false", num |-> 0]
Throw(e) == [status |-> "throw", val |-> e, num |-> 0]
Void == Ret("void")
Null == Ret("null")

\* the result of an operation: the items afterwards and the outcome
Result(items, out) == [items |-> items, out |-> out]

\* ------------------------------------------------- sequences of entries
Entry(k, v) == [key |-> k, value |-> v]

\* Array.prototype.findIndex on the key, 0 for -1
KeyIndex(items, k) ==
    IF \E i \in 1..Len(items) : items[i].key = k
    THEN CHOOSE i \in 1..Len(items) :
            /\ items[i].key = k
            /\ \A j \in 1..(i - 1) : items[j].key # k
    ELSE 0

HasKey(items, k) == KeyIndex(items, k) # 0

KeysOf(items) == {items[i].key : i \in 1..Len(items)}

\* ==================================================================
\* Map<E>: the entries are own properties of the object itself
\* ==================================================================

\* this[key]: the own property, else what the prototype chain gives
MapLookup(items, k) ==
    IF HasKey(items, k) THEN items[KeyIndex(items, k)].value
    ELSE IF k \in MapMethods \cup ObjectMethods THEN Fn
    ELSE Undefined

\* this[key] = value: an own property keeps its place, a new one goes last
MapAssign(items, k, v) ==
    IF HasKey(items, k)
    THEN [items EXCEPT ![KeyIndex(items, k)].value = v]
    ELSE Append(items, Entry(k, v))

\* delete this[key]: drops the own property, never the inherited method
MapDelete(items, k) == SelectSeq(items, LAMBDA e : e.key # k)

\* for (let key in this) if (typeof this[key] !== 'function'): inherited
\* names are methods, so what is left are the own non-function properties
MapForEach(items) == SelectSeq(items, LAMBDA e : e.value # Fn)

\* this.m(...): calling a property that no longer holds a function throws
MapCall(items, m, result) ==
    IF MapLookup(items, m) = Fn THEN result
    ELSE Result(items, Throw("TypeError"))

MapAdd(items, k, v) ==
    IF Truthy(MapLookup(items, k))
    THEN Result(items, Throw("KeyConflict"))
    ELSE Result(MapAssign(items, k, v), Void)

MapGet(items, k) ==
    IF ~Truthy(MapLookup(items, k)) THEN Result(items, Throw("KeyNotFound"))
    ELSE IF MapLookup(items, k) = Fn THEN Result(items, Throw("TypeMismatch"))
    ELSE Result(items, Ret(MapLookup(items, k)))

MapRemove(items, k) ==
    IF ~Truthy(MapLookup(items, k))
    THEN Result(items, Throw("KeyNotFound"))
    ELSE Result(MapDelete(items, k), Void)

MapSize(items) == Len(MapForEach(items))

MapSet(items, k, v) ==
    IF ~Truthy(MapLookup(items, k))
    THEN Result(items, Throw("KeyNotFound"))
    ELSE Result(MapAssign(items, k, v), Void)

MapIncludesKey(items, k) == Truthy(MapLookup(items, k))

\* ==================================================================
\* GuardedMap<E>: the entries are the records of the array _elements
\* ==================================================================

\* add with the key looked up by the truthiness of the value it holds
GuardedAddByTruthiness(items, k, v) ==
    IF KeyIndex(items, k) # 0 /\ Truthy(items[KeyIndex(items, k)].value)
    THEN Result(items, Throw("KeyConflict"))
    ELSE Result(Append(items, Entry(k, v)), Void)

GuardedAdd(items, k, v) ==
    IF KeyIndex(items, k) # 0
    THEN Result(items, Throw("KeyConflict"))
    ELSE Result(Append(items, Entry(k, v)), Void)

GuardedGet(items, k) ==
    IF KeyIndex(items, k) = 0
    THEN Result(items, Throw("KeyNotFound"))
    ELSE Result(items, Ret(items[KeyIndex(items, k)].value))

GuardedRemove(items, k) ==
    IF KeyIndex(items, k) = 0
    THEN Result(items, Throw("KeyNotFound"))
    ELSE Result(SelectSeq(items, LAMBDA e : e.key # k), Void)

GuardedSize(items) == Len(items)

\* set as a remove followed by a push: the entry moves to the end
GuardedSetMovesLast(items, k, v) ==
    IF KeyIndex(items, k) = 0
    THEN Result(items, Throw("KeyNotFound"))
    ELSE Result(Append(SelectSeq(items, LAMBDA e : e.key # k), Entry(k, v)),
                Void)

GuardedSet(items, k, v) ==
    IF KeyIndex(items, k) = 0
    THEN Result(items, Throw("KeyNotFound"))
    ELSE Result([i \in 1..Len(items) |->
                    IF items[i].key = k THEN Entry(k, v) ELSE items[i]],
                Void)

GuardedForEach(items) == items

\* this._elements.map(e => e.key)
GuardedKeysToArray(items) == [i \in 1..Len(items) |-> items[i].key]

GuardedIncludesKey(items, k) == KeyIndex(items, k) # 0

\* ==================================================================
\* the calls of the shared interface UtilityMap<E>, on either variant
\* ==================================================================
IsMap(c) == c.variant = "Map"

Variants == {"Map", "GuardedMap"}

\* new Map<E>() / new GuardedMap<E>()
Empty(variant) == [variant |-> variant, items |-> <<>>]

DoAdd(c, k, v) ==
    IF IsMap(c) THEN MapCall(c.items, "add", MapAdd(c.items, k, v))
    ELSE GuardedAdd(c.items, k, v)

DoGet(c, k) ==
    IF IsMap(c) THEN MapCall(c.items, "get", MapGet(c.items, k))
    ELSE GuardedGet(c.items, k)

DoRemove(c, k) ==
    IF IsMap(c) THEN MapCall(c.items, "remove", MapRemove(c.items, k))
    ELSE GuardedRemove(c.items, k)

DoSize(c) ==
    IF IsMap(c)
    THEN MapCall(c.items, "size", Result(c.items, RetNum(MapSize(c.items))))
    ELSE Result(c.items, RetNum(GuardedSize(c.items)))

DoSet(c, k, v) ==
    IF IsMap(c) THEN MapCall(c.items, "set", MapSet(c.items, k, v))
    ELSE GuardedSet(c.items, k, v)

DoIncludesKey(c, k) ==
    IF IsMap(c)
    THEN MapCall(c.items, "includesKey",
                 Result(c.items, RetBool(MapIncludesKey(c.items, k))))
    ELSE Result(c.items, RetBool(GuardedIncludesKey(c.items, k)))

\* the (value, key) pairs forEach hands to its callback, in order
ForEach(c) == IF IsMap(c) THEN MapForEach(c.items) ELSE GuardedForEach(c.items)

\* otherMap.forEach(...) and otherMap.size(): a Map whose property of that
\* name no longer holds the method cannot be called
Callable(c, m) == ~IsMap(c) \/ MapLookup(c.items, m) = Fn

\* ------------------------------------------------------------- concat
\* the callback of Map.concat over the entries forEach yields
RECURSIVE MapConcatLoop(_, _, _)
MapConcatLoop(items, entries, replace) ==
    IF entries = <<>> THEN items
    ELSE LET e == Head(entries)
         IN  MapConcatLoop(
                 MapAssign(items, e.key,
                           IF replace THEN e.value ELSE MapLookup(items, e.key)),
                 Tail(entries), replace)

MapConcat(items, other, replace) ==
    IF ~Callable(other, "forEach") THEN Result(items, Throw("TypeError"))
    ELSE Result(MapConcatLoop(items, ForEach(other), replace), Void)

\* the callback with the replace flag not consulted on a key collision
GuardedConcatStepAlwaysSet(items, e, replace) ==
    IF GuardedIncludesKey(items, e.key)
    THEN GuardedSet(items, e.key, e.value)
    ELSE GuardedAdd(items, e.key, e.value)

\* one call of the callback of GuardedMap.concat
GuardedConcatStep(items, e, replace) ==
    IF GuardedIncludesKey(items, e.key)
    THEN IF replace THEN GuardedSet(items, e.key, e.value)
         ELSE Result(items, Void)
    ELSE GuardedAdd(items, e.key, e.value)

\* the callback over the entries forEach yields; a throw ends the loop
RECURSIVE GuardedConcatLoop(_, _, _)
GuardedConcatLoop(items, entries, replace) ==
    IF entries = <<>> THEN Result(items, Void)
    ELSE LET r == GuardedConcatStep(items, Head(entries), replace)
         IN  IF r.out.status = "throw" THEN r
             ELSE GuardedConcatLoop(r.items, Tail(entries), replace)

GuardedConcat(items, other, replace) ==
    IF ~Callable(other, "forEach") THEN Result(items, Throw("TypeError"))
    ELSE GuardedConcatLoop(items, ForEach(other), replace)

DoConcat(c, other, replace) ==
    IF IsMap(c) THEN MapCall(c.items, "concat", MapConcat(c.items, other, replace))
    ELSE GuardedConcat(c.items, other, replace)

\* ------------------------------------------------------------- equals
\* the callback of Map.equals: the value of check after the entries
RECURSIVE MapEqualsLoop(_, _, _, _)
MapEqualsLoop(items, entries, compare, check) ==
    IF entries = <<>> THEN check
    ELSE LET e == Head(entries)
             mine == MapLookup(items, e.key)
             keyOk == Truthy(mine)
             valueOk ==
                 IF compare = "none" \/ ~Compare(compare, mine, e.value)
                 THEN FALSE
                 ELSE mine = e.value
         IN  MapEqualsLoop(items, Tail(entries), compare,
                           check /\ keyOk /\ valueOk)

MapEquals(items, other, compare) ==
    IF MapLookup(items, "size") # Fn \/ ~Callable(other, "size")
    THEN Throw("TypeError")
    ELSE IF MapSize(items) # DoSize(other).out.num THEN RetBool(FALSE)
    ELSE IF ~Callable(other, "forEach") THEN Throw("TypeError")
    ELSE RetBool(MapEqualsLoop(items, ForEach(other), compare, TRUE))

\* the callback of GuardedMap.equals: "throw" when this.get(key) throws,
\* else the value of check after the entries
RECURSIVE GuardedEqualsLoop(_, _, _, _)
GuardedEqualsLoop(items, entries, compare, check) ==
    IF entries = <<>> THEN IF check THEN "true" ELSE "false"
    ELSE LET e == Head(entries)
             keyOk == GuardedIncludesKey(items, e.key)
             got == GuardedGet(items, e.key).out
         IN  IF compare = "none"
             THEN GuardedEqualsLoop(items, Tail(entries), compare, FALSE)
             ELSE IF got.status = "throw" THEN "throw"
             ELSE GuardedEqualsLoop(items, Tail(entries), compare,
                      check /\ keyOk /\ Compare(compare, got.val, e.value)
                            /\ got.val = e.value)

\* what GuardedMap.equals returns once the loop is over
GuardedEqualsReturn(check) == TRUE

GuardedEquals(items, other, compare) ==
    IF ~Callable(other, "size") THEN Throw("TypeError")
    ELSE IF GuardedSize(items) # DoSize(other).out.num THEN RetBool(FALSE)
    ELSE IF ~Callable(other, "forEach") THEN Throw("TypeError")
    ELSE LET check == GuardedEqualsLoop(items, ForEach(other), compare, TRUE)
         IN  IF check = "throw" THEN Throw("KeyNotFound")
             ELSE RetBool(GuardedEqualsReturn(check = "true"))

DoEquals(c, other, compare) ==
    IF IsMap(c)
    THEN MapCall(c.items, "equals", Result(c.items, MapEquals(c.items, other, compare)))
    ELSE Result(c.items, GuardedEquals(c.items, other, compare))

\* -------------------------------------------------- includes and keyOf
\* the test of Map.includes and Map.keyOf on one property: compare when it
\* is there and says yes, else ===
MapMatches(e, value, compare) ==
    IF compare # "none" /\ Compare(compare, e.value, value) THEN TRUE
    ELSE e.value = value

\* the test of GuardedMap.includes and GuardedMap.keyOf on one record:
\* compare when it is there, else ==
GuardedMatches(e, value, compare) ==
    IF compare # "none" THEN Compare(compare, e.value, value)
    ELSE LooseEquals(e.value, value)

Matches(c, e, value, compare) ==
    IF IsMap(c) THEN MapMatches(e, value, compare)
    ELSE GuardedMatches(e, value, compare)

\* findIndex / the for-in loop: the place of the first entry that passes
\* the test, 0 when none does
FirstMatch(c, entries, value, compare) ==
    IF \E i \in 1..Len(entries) : Matches(c, entries[i], value, compare)
    THEN CHOOSE i \in 1..Len(entries) :
            /\ Matches(c, entries[i], value, compare)
            /\ \A j \in 1..(i - 1) : ~Matches(c, entries[j], value, compare)
    ELSE 0

MapIncludes(items, value, compare) ==
    RetBool(FirstMatch(Empty("Map"), MapForEach(items), value, compare) # 0)

GuardedIncludes(items, value, compare) ==
    RetBool(FirstMatch(Empty("GuardedMap"), items, value, compare) # 0)

MapKeyOf(items, value, compare) ==
    LET i == FirstMatch(Empty("Map"), MapForEach(items), value, compare)
    IN  IF i = 0 THEN Null ELSE Ret(MapForEach(items)[i].key)

GuardedKeyOf(items, value, compare) ==
    LET i == FirstMatch(Empty("GuardedMap"), items, value, compare)
    IN  IF i = 0 THEN Null ELSE Ret(items[i].key)

DoIncludes(c, value, compare) ==
    IF IsMap(c)
    THEN MapCall(c.items, "includes",
                 Result(c.items, MapIncludes(c.items, value, compare)))
    ELSE Result(c.items, GuardedIncludes(c.items, value, compare))

DoKeyOf(c, value, compare) ==
    IF IsMap(c)
    THEN MapCall(c.items, "keyOf",
                 Result(c.items, MapKeyOf(c.items, value, compare)))
    ELSE Result(c.items, GuardedKeyOf(c.items, value, compare))

\* -------------------------------------------------------- conversions
\* what a conversion hands back: the new object and the outcome
Converted(obj, out) == [obj |-> obj, out |-> out]

\* for (let key in this) ... result.push({key: key, value: this[key]})
MapToObjectsArray(items) == MapForEach(items)

\* basic[key] = value for each entry forEach yields
RECURSIVE BasicLoop(_, _)
BasicLoop(basic, entries) ==
    IF entries = <<>> THEN basic
    ELSE BasicLoop(MapAssign(basic, Head(entries).key, Head(entries).value),
                   Tail(entries))

MapToBasicMap(items) ==
    IF MapLookup(items, "size") # Fn THEN Converted(<<>>, Throw("TypeError"))
    ELSE IF MapSize(items) = 0 THEN Converted(<<>>, Ret("object"))
    ELSE IF MapLookup(items, "forEach") # Fn
    THEN Converted(<<>>, Throw("TypeError"))
    ELSE Converted(BasicLoop(<<>>, MapForEach(items)), Ret("object"))

GuardedToBasicMap(items) ==
    IF GuardedSize(items) = 0 THEN Converted(<<>>, Ret("object"))
    ELSE Converted(BasicLoop(<<>>, GuardedForEach(items)), Ret("object"))

\* target.add(key, value) for each entry forEach yields; a throw ends the loop
RECURSIVE AddLoop(_, _)
AddLoop(target, entries) ==
    IF entries = <<>> THEN Result(target.items, Void)
    ELSE LET r == DoAdd(target, Head(entries).key, Head(entries).value)
         IN  IF r.out.status = "throw" THEN r
             ELSE AddLoop([target EXCEPT !.items = r.items], Tail(entries))

\* Map.toGuardedMap
MapToGuardedMap(items) ==
    IF MapLookup(items, "size") # Fn THEN Converted(<<>>, Throw("TypeError"))
    ELSE IF MapSize(items) = 0 THEN Converted(<<>>, Ret("GuardedMap"))
    ELSE IF MapLookup(items, "forEach") # Fn
    THEN Converted(<<>>, Throw("TypeError"))
    ELSE LET r == AddLoop(Empty("GuardedMap"), MapForEach(items))
         IN  IF r.out.status = "throw" THEN Converted(<<>>, r.out)
             ELSE Converted(r.items, Ret("GuardedMap"))

\* GuardedMap.toMap
GuardedToMap(items) ==
    IF GuardedSize(items) = 0 THEN Converted(<<>>, Ret("Map"))
    ELSE LET r == AddLoop(Empty("Map"), GuardedForEach(items))
         IN  IF r.out.status = "throw" THEN Converted(<<>>, r.out)
             ELSE Converted(r.items, Ret("Map"))

DoToBasicMap(c) ==
    IF ~IsMap(c) THEN GuardedToBasicMap(c.items)
    ELSE IF MapLookup(c.items, "toBasicMap") # Fn
    THEN Converted(<<>>, Throw("TypeError"))
    ELSE MapToBasicMap(c.items)

\* GuardedMap.toObjectsArray: return this._elements
GuardedToObjectsArray(items) == items

DoToObjectsArray(c) ==
    IF ~IsMap(c) THEN Converted(GuardedToObjectsArray(c.items), Ret("array"))
    ELSE IF MapLookup(c.items, "toObjectsArray") # Fn
    THEN Converted(<<>>, Throw("TypeError"))
    ELSE Converted(MapToObjectsArray(c.items), Ret("array"))

\* toMap is a member of GuardedMap alone, toGuardedMap of Map alone
DoToMap(c) ==
    IF IsMap(c) THEN Converted(<<>>, Throw("TypeError"))
    ELSE GuardedToMap(c.items)

DoToGuardedMap(c) ==
    IF ~IsMap(c) \/ MapLookup(c.items, "toGuardedMap") # Fn
    THEN Converted(<<>>, Throw("TypeError"))
    ELSE MapToGuardedMap(c.items)

\* for (let key in object) map.add(key, object[key]) of the factory
FromBasicMap(variant, object) ==
    LET r == AddLoop(Empty(variant), object)
    IN  IF r.out.status = "throw" THEN Converted(<<>>, r.out)
        ELSE Converted(r.items, Ret(variant))

\* ------------------------------------------------ the enumeration views
\* for (let key in this) ... result.push(key)
MapKeysToArray(items) ==
    [i \in 1..Len(MapForEach(items)) |-> MapForEach(items)[i].key]

\* for (let key in this) ... result.push(this[key])
MapValuesToArray(items) ==
    [i \in 1..Len(MapForEach(items)) |-> MapForEach(items)[i].value]

\* this._elements.map(e => e.value)
GuardedValuesToArray(items) == [i \in 1..Len(items) |-> items[i].value]

DoKeysToArray(c) ==
    IF ~IsMap(c) THEN Converted(GuardedKeysToArray(c.items), Ret("array"))
    ELSE IF MapLookup(c.items, "keysToArray") # Fn
    THEN Converted(<<>>, Throw("TypeError"))
    ELSE Converted(MapKeysToArray(c.items), Ret("array"))

DoValuesToArray(c) ==
    IF ~IsMap(c) THEN Converted(GuardedValuesToArray(c.items), Ret("array"))
    ELSE IF MapLookup(c.items, "valuesToArray") # Fn
    THEN Converted(<<>>, Throw("TypeError"))
    ELSE Converted(MapValuesToArray(c.items), Ret("array"))

\* ------------------------------------------------ the factory on arrays
\* the second argument of mapFromArray: omitted, the empty string, a string
KeyPrefixes == {Undefined, "", "_k"}

\* the decimal digits
Digits == <<"0", "1", "2", "3", "4", "5", "6", "7", "8", "9">>

\* i.toString() for an array index
RECURSIVE IndexToString(_)
IndexToString(i) ==
    IF i < 10 THEN Digits[i + 1]
    ELSE IndexToString(i \div 10) \o Digits[(i % 10) + 1]

\* the key built with the argument put in front of the index
FromArrayKeyInFront(i, keyPrefix) ==
    IF keyPrefix \notin {Undefined, ""} THEN keyPrefix \o IndexToString(i)
    ELSE IndexToString(i)

\* keyPrefix ? i.toString() + keyPrefix : i.toString()
FromArrayKey(i, keyPrefix) ==
    IF keyPrefix \notin {Undefined, ""} THEN IndexToString(i) \o keyPrefix
    ELSE IndexToString(i)

\* array.forEach((el, i) => map.add(key, el)) on a new collection
FromArray(variant, array, keyPrefix) ==
    LET r == AddLoop(Empty(variant),
                     [i \in 1..Len(array) |->
                         Entry(FromArrayKey(i - 1, keyPrefix), array[i])])
    IN  IF r.out.status = "throw" THEN Converted(<<>>, r.out)
        ELSE Converted(r.items, Ret(variant))

\* ==================================================================
\* the state machine: one collection and the calls a caller makes on it
\* ==================================================================
VARIABLES
    this,       \* the collection: [variant, items]
    last,       \* the call that has just ended, op = "none" between calls
    removed,    \* keys removed with success and not added since
    adds,       \* successful add calls counted so far
    removes,    \* successful remove calls counted so far
    held,       \* what the last conversion returned, still held by the caller
    twin        \* a collection of the other variant that gets the same calls

vars == <<this, last, removed, adds, removes, held, twin>>

\* the caller holds no conversion result / no second collection
NoHeld == [kind |-> "none", items |-> <<>>, live |-> FALSE, link |-> <<>>]
NoTwin == [variant |-> "none", items |-> <<>>]

NoCall ==
    [op |-> "none", key |-> "", value |-> Undefined, other |-> Empty("Map"),
     replace |-> FALSE, compare |-> "none", pre |-> <<>>, gone |-> {},
     out |-> Void, held |-> NoHeld, twinOut |-> Void,
     array |-> <<>>, keyPrefix |-> Undefined]

\* sequences of at most n entries with distinct keys out of keys
RECURSIVE ItemsUpTo(_, _)
ItemsUpTo(n, keys) ==
    IF n = 0 THEN {<<>>}
    ELSE LET shorter == ItemsUpTo(n - 1, keys)
         IN  shorter \cup
             {Append(x[1], Entry(x[2], x[3])) :
                 x \in {y \in shorter \X keys \X OtherValues :
                          Len(y[1]) = n - 1 /\ ~HasKey(y[1], y[2])}}

\* the collections a caller passes as otherMap, each built with add alone:
\* a GuardedMap takes any key, a Map refuses the names it inherits
Others ==
    {[variant |-> "GuardedMap", items |-> s] : s \in ItemsUpTo(MaxOther, Keys)}
    \cup
    {[variant |-> "Map", items |-> s] :
        s \in ItemsUpTo(MaxOther, Keys \ (MapMethods \cup ObjectMethods))}

Init ==
    /\ this \in {Empty(t) : t \in Variants}
    /\ last = NoCall
    /\ removed = {}
    /\ adds = 0
    /\ removes = 0
    /\ held = NoHeld
    /\ twin = NoTwin

Idle == last.op = "none"

Ok(r) == r.out.status = "return"

\* ----------------------------------------- arrays and records that are shared
\* held.items is the array (or object, or collection) the caller got; live
\* says that the array is this._elements itself, link[i] is the place in
\* this._elements of the record that held.items[i] is, 0 when it is in neither

\* a result that shares nothing with the collection
Copy(kind, items) ==
    [kind |-> kind, items |-> items, live |-> FALSE,
     link |-> [i \in 1..Len(items) |-> 0]]

\* this._elements.push(...) in add: the held array grows when it is that array
HeldAfterAdd(h, items, k, v) ==
    IF h.live
    THEN [h EXCEPT !.items = Append(@, Entry(k, v)),
                   !.link = Append(@, Len(items) + 1)]
    ELSE h

\* this._elements = this._elements.map(...) in set: a new array of the same
\* records, and el.value = value written into the record itself
HeldAfterSet(h, items, k, v) ==
    [h EXCEPT !.items = [i \in 1..Len(h.items) |->
                            IF h.link[i] # 0 /\ items[h.link[i]].key = k
                            THEN Entry(h.items[i].key, v) ELSE h.items[i]],
              !.live = FALSE]

\* this._elements = this._elements.filter(...) in remove: a new array, the
\* records that stay move up
HeldAfterRemove(h, items, k) ==
    [h EXCEPT !.link = [i \in 1..Len(h.items) |->
                           IF h.link[i] = 0 \/ items[h.link[i]].key = k THEN 0
                           ELSE Cardinality({j \in 1..h.link[i] : items[j].key # k})],
              !.live = FALSE]

\* what a call that ended well on a GuardedMap does to the held array; a Map
\* hands out no array or record of its own
HeldAfter(h, c, op, k, v) ==
    IF IsMap(c) \/ h.kind # "toObjectsArray" THEN h
    ELSE IF op = "add" THEN HeldAfterAdd(h, c.items, k, v)
    ELSE IF op = "set" THEN HeldAfterSet(h, c.items, k, v)
    ELSE IF op = "remove" THEN HeldAfterRemove(h, c.items, k)
    ELSE h

\* the same along the callback of GuardedMap.concat
RECURSIVE HeldAfterConcat(_, _, _, _)
HeldAfterConcat(h, c, entries, replace) ==
    IF entries = <<>> THEN h
    ELSE LET e == Head(entries)
             r == GuardedConcatStep(c.items, e, replace)
             op == IF ~GuardedIncludesKey(c.items, e.key) THEN "add"
                   ELSE IF replace THEN "set" ELSE "none"
         IN  IF r.out.status = "throw" THEN h
             ELSE HeldAfterConcat(HeldAfter(h, c, op, e.key, e.value),
                                  [c EXCEPT !.items = r.items],
                                  Tail(entries), replace)

\* a call of op on this: its arguments, the state before it, and its result
\* r; the twin, when there is one, gets the same call, with the result rTwin
Call(op, k, v, other, replace, compare, r, rTwin) ==
    /\ Idle
    /\ last' = [op |-> op, key |-> k, value |-> v, other |-> other,
                replace |-> replace, compare |-> compare,
                pre |-> this.items, gone |-> removed, out |-> r.out,
                held |-> held,
                twinOut |-> IF twin = NoTwin THEN Void ELSE rTwin.out,
                array |-> <<>>, keyPrefix |-> Undefined]
    /\ this' = [this EXCEPT !.items = r.items]
    /\ twin' = IF twin = NoTwin THEN twin
               ELSE [twin EXCEPT !.items = rTwin.items]

KeyCall(op, k, v, r, rTwin) ==
    /\ Call(op, k, v, Empty("Map"), FALSE, "none", r, rTwin)
    /\ held' = IF Ok(r) THEN HeldAfter(held, this, op, k, v) ELSE held

AddCall(k, v) ==
    /\ KeyCall("add", k, v, DoAdd(this, k, v), DoAdd(twin, k, v))
    /\ removed' = IF Ok(DoAdd(this, k, v)) THEN removed \ {k} ELSE removed

RemoveCall(k) ==
    /\ KeyCall("remove", k, Undefined, DoRemove(this, k), DoRemove(twin, k))
    /\ removed' = IF Ok(DoRemove(this, k)) THEN removed \cup {k} ELSE removed

AddOf(keys, values) ==
    \E k \in keys, v \in values :
        AddCall(k, v) /\ UNCHANGED <<adds, removes>>

Add == AddOf(Keys, Values)

Get ==
    \E k \in Keys :
        /\ KeyCall("get", k, Undefined, DoGet(this, k), DoGet(twin, k))
        /\ UNCHANGED <<removed, adds, removes>>

RemoveOf(keys) ==
    \E k \in keys :
        RemoveCall(k) /\ UNCHANGED <<adds, removes>>

Remove == RemoveOf(Keys)

Size ==
    /\ KeyCall("size", "", Undefined, DoSize(this), DoSize(twin))
    /\ UNCHANGED <<removed, adds, removes>>

SetOf(keys, values) ==
    \E k \in keys, v \in values :
        /\ KeyCall("set", k, v, DoSet(this, k, v), DoSet(twin, k, v))
        /\ UNCHANGED <<removed, adds, removes>>

Set == SetOf(Keys, Values)

IncludesKey ==
    \E k \in Keys :
        /\ KeyCall("includesKey", k, Undefined,
                   DoIncludesKey(this, k), DoIncludesKey(twin, k))
        /\ UNCHANGED <<removed, adds, removes>>

Concat ==
    \E other \in Others, replace \in BOOLEAN :
        /\ Call("concat", "", Undefined, other, replace, "none",
                DoConcat(this, other, replace), DoConcat(twin, other, replace))
        /\ held' = IF Callable(other, "forEach")
                   THEN HeldAfterConcat(held, this, ForEach(other), replace)
                   ELSE held
        /\ removed' = removed \ KeysOf(ForEach(other))
        /\ UNCHANGED <<adds, removes>>

Equals ==
    \E other \in Others, compare \in Compares :
        /\ Call("equals", "", Undefined, other, FALSE, compare,
                DoEquals(this, other, compare), DoEquals(twin, other, compare))
        /\ UNCHANGED <<removed, adds, removes, held>>

\* the call has ended and the caller goes on
Return ==
    /\ ~Idle
    /\ last' = NoCall
    /\ UNCHANGED <<this, removed, adds, removes, held, twin>>

\* add and remove with the successful calls counted, up to MaxCalls each
CountedAdd ==
    \E k \in Keys, v \in Values :
        /\ adds < MaxCalls
        /\ AddCall(k, v)
        /\ adds' = IF Ok(DoAdd(this, k, v)) THEN adds + 1 ELSE adds
        /\ UNCHANGED removes

CountedRemove ==
    \E k \in Keys :
        /\ removes < MaxCalls
        /\ RemoveCall(k)
        /\ removes' = IF Ok(DoRemove(this, k)) THEN removes + 1 ELSE removes
        /\ UNCHANGED adds

Includes ==
    \E v \in SearchValues, compare \in SearchCompares :
        /\ Call("includes", "", v, Empty("Map"), FALSE, compare,
                DoIncludes(this, v, compare), DoIncludes(twin, v, compare))
        /\ UNCHANGED <<removed, adds, removes, held>>

KeyOf ==
    \E v \in SearchValues, compare \in SearchCompares :
        /\ Call("keyOf", "", v, Empty("Map"), FALSE, compare,
                DoKeyOf(this, v, compare), DoKeyOf(twin, v, compare))
        /\ UNCHANGED <<removed, adds, removes, held>>

\* ------------------------------------------------ conversions, as calls
\* the array is this._elements itself, each record in its own place
Live(items) ==
    [kind |-> "toObjectsArray", items |-> items, live |-> TRUE,
     link |-> [i \in 1..Len(items) |-> i]]

\* a conversion op: r is what it hands back on this and rTwin on the twin,
\* h what the caller holds afterwards when it returned
Conversion(op, r, rTwin, h) ==
    /\ Call(op, "", Undefined, Empty("Map"), FALSE, "none",
            Result(this.items, r.out), Result(twin.items, rTwin.out))
    /\ held' = IF r.out.status = "return" THEN h ELSE held
    /\ UNCHANGED <<removed, adds, removes>>

ToObjectsArray ==
    Conversion("toObjectsArray", DoToObjectsArray(this), DoToObjectsArray(twin),
               IF IsMap(this)
               THEN Copy("toObjectsArray", DoToObjectsArray(this).obj)
               ELSE Live(DoToObjectsArray(this).obj))

ToBasicMap ==
    Conversion("toBasicMap", DoToBasicMap(this), DoToBasicMap(twin),
               Copy("toBasicMap", DoToBasicMap(this).obj))

ToMap ==
    /\ ~IsMap(this)
    /\ Conversion("toMap", DoToMap(this), DoToMap(twin),
                  Copy("toMap", DoToMap(this).obj))

ToGuardedMap ==
    /\ IsMap(this)
    /\ Conversion("toGuardedMap", DoToGuardedMap(this), DoToGuardedMap(twin),
                  Copy("toGuardedMap", DoToGuardedMap(this).obj))

\* ------------------------------- what the caller does with what it holds
\* the step op of the caller on the held result, which ends as h, and what
\* it does to the items of this
Mutation(op, k, v, h, items) ==
    /\ Idle
    /\ last' = [NoCall EXCEPT !.op = op, !.key = k, !.value = v,
                              !.pre = this.items, !.held = held]
    /\ held' = h
    /\ this' = [this EXCEPT !.items = items]
    /\ UNCHANGED <<removed, adds, removes, twin>>

\* array.push({key: k, value: v}) on a returned array
HeldPush ==
    \E k \in CopyKeys, v \in CopyValues :
        /\ held.kind = "toObjectsArray"
        /\ Len(held.items) < MaxHeld
        /\ Mutation("push", k, v,
                    [held EXCEPT !.items = Append(@, Entry(k, v)),
                                 !.link = Append(@, IF held.live
                                                    THEN Len(this.items) + 1
                                                    ELSE 0)],
                    IF held.live THEN Append(this.items, Entry(k, v))
                    ELSE this.items)

\* array.pop() on a returned array
HeldPop ==
    /\ held.kind = "toObjectsArray"
    /\ held.items # <<>>
    /\ Mutation("pop", "", Undefined,
                [held EXCEPT !.items = SubSeq(@, 1, Len(@) - 1),
                             !.link = SubSeq(@, 1, Len(@) - 1)],
                IF held.live THEN SubSeq(this.items, 1, Len(this.items) - 1)
                ELSE this.items)

\* array[i].value = v on a record of a returned array
HeldWrite ==
    \E i \in 1..Len(held.items), v \in CopyValues :
        /\ held.kind = "toObjectsArray"
        /\ Mutation("write", held.items[i].key, v,
                    [held EXCEPT !.items[i].value = v],
                    IF held.link[i] # 0
                    THEN [this.items EXCEPT ![held.link[i]].value = v]
                    ELSE this.items)

\* result[k] = v on a returned object, result.add / result.set(k, v) on a
\* returned collection
CopyWrite ==
    \E k \in CopyKeys, v \in CopyValues :
        /\ held.kind \in {"toBasicMap", "toMap", "toGuardedMap"}
        /\ Mutation("assign", k, v,
                    [held EXCEPT !.items = MapAssign(@, k, v),
                                 !.link = [i \in 1..Len(MapAssign(held.items, k, v)) |-> 0]],
                    this.items)

\* the key calls: add, get, set, remove, size, includesKey
Next == Add \/ Get \/ Remove \/ Size \/ Set \/ IncludesKey \/ Return
Spec == Init /\ [][Next]_vars

\* the key calls with add and remove counted
NextCounted == CountedAdd \/ Get \/ CountedRemove \/ Set \/ Return
SpecCounted == Init /\ [][NextCounted]_vars

\* the key calls and concat
NextConcat == Next \/ Concat
SpecConcat == Init /\ [][NextConcat]_vars

\* the key calls and equals
NextEquals == Next \/ Equals
SpecEquals == Init /\ [][NextEquals]_vars

\* add, set and remove, the conversions, and what the caller does with
\* their results
NextCopies ==
    \/ AddOf(CopyKeys, CopyValues) \/ SetOf(CopyKeys, CopyValues)
    \/ RemoveOf(CopyKeys) \/ Return
    \/ ToObjectsArray \/ ToBasicMap \/ ToMap \/ ToGuardedMap
    \/ HeldPush \/ HeldPop \/ HeldWrite \/ CopyWrite
SpecCopies == Init /\ [][NextCopies]_vars

\* the key calls, includes and keyOf
NextSearch == Next \/ Includes \/ KeyOf
SpecSearch == Init /\ [][NextSearch]_vars

\* the arrays a caller hands to the factory
RECURSIVE ArraysUpTo(_)
ArraysUpTo(n) ==
    IF n = 0 THEN {<<>>}
    ELSE ArraysUpTo(n - 1) \cup
         {Append(a, v) : a \in {b \in ArraysUpTo(n - 1) : Len(b) = n - 1},
                         v \in Values}

\* Maps.mapFromArray / guardedMapFromArray: the caller goes on with the
\* collection the factory returns
FromArrayCall(variant) ==
    \E array \in ArraysUpTo(MaxArray), keyPrefix \in KeyPrefixes :
        /\ Idle
        /\ last' = [NoCall EXCEPT !.op = "fromArray", !.pre = this.items,
                       !.array = array, !.keyPrefix = keyPrefix,
                       !.out = FromArray(variant, array, keyPrefix).out]
        /\ this' = IF FromArray(variant, array, keyPrefix).out.status = "return"
                   THEN [variant |-> variant,
                         items |-> FromArray(variant, array, keyPrefix).obj]
                   ELSE this
        /\ removed' = {}
        /\ held' = NoHeld
        /\ UNCHANGED <<adds, removes, twin>>

MapFromArray == FromArrayCall("Map")

GuardedMapFromArray == FromArrayCall("GuardedMap")

\* the factory on arrays, and size
NextFactory == MapFromArray \/ GuardedMapFromArray \/ Size \/ Return
SpecFactory == Init /\ [][NextFactory]_vars

\* one empty collection of each variant, and the key calls made on both
InitTwin ==
    /\ this \in {Empty(t) : t \in Variants}
    /\ twin \in {Empty(t) : t \in Variants \ {this.variant}}
    /\ last = NoCall
    /\ removed = {}
    /\ adds = 0
    /\ removes = 0
    /\ held = NoHeld
NextTwin ==
    \/ AddOf(CopyKeys, CopyValues) \/ SetOf(CopyKeys, CopyValues)
    \/ RemoveOf(CopyKeys) \/ Get \/ Size \/ IncludesKey \/ Return
SpecTwin == InitTwin /\ [][NextTwin]_vars

\* ==================================================================
\* what a caller observes, and the properties
\* ==================================================================

\* the collection as it was before the last call
Before == [variant |-> this.variant, items |-> last.pre]

\* the keys that hold an entry: those the enumerations list
StoredKeys(c) == KeysOf(ForEach(c))

\* the value held under a key of items
ItemValue(items, k) == items[KeyIndex(items, k)].value

Called(op) == last.op = op

\* C1: add on a key that already holds an entry fails with KeyConflict and
\* leaves the collection as it was (same size, same value under the key).
C1_AddOnStoredKeyConflicts ==
    (Called("add") /\ last.key \in StoredKeys(Before)) =>
        /\ last.out = Throw("KeyConflict")
        /\ DoSize(this) = DoSize(Before)
        /\ ItemValue(this.items, last.key) = ItemValue(last.pre, last.key)

\* C2: for a key that holds no entry, includesKey is false before add, add
\* succeeds, and afterwards includesKey is true and get returns the value.
C2_AddOnFreshKeyStores ==
    (Called("add") /\ last.key \notin StoredKeys(Before)) =>
        /\ DoIncludesKey(Before, last.key).out = RetBool(FALSE)
        /\ last.out = Void
        /\ DoIncludesKey(this, last.key).out = RetBool(TRUE)
        /\ DoGet(this, last.key).out = Ret(last.value)

\* C3: on a key that holds no entry get, set and remove fail (set and
\* remove with KeyNotFound) and leave the entries, their values and the
\* size as they were.
C3_AbsentKeyCallsFailWithoutEffect ==
    (last.op \in {"get", "set", "remove"} /\ last.key \notin StoredKeys(Before)) =>
        /\ last.out.status = "throw"
        /\ last.op \in {"set", "remove"} => last.out = Throw("KeyNotFound")
        /\ ForEach(this) = ForEach(Before)
        /\ DoSize(this) = DoSize(Before)

\* C4: once remove(k) has succeeded, get(k), remove(k) and set(k, v) fail
\* with KeyNotFound until k is added again.
C4_RemovedKeyStaysNotFound ==
    (last.op \in {"get", "set", "remove"} /\ last.key \in last.gone) =>
        last.out = Throw("KeyNotFound")

\* C5: after any sequence of add, set, get and remove calls on a collection
\* that began empty, size() is the number of successful add calls minus the
\* number of successful remove calls.
C5_SizeIsAddsMinusRemoves ==
    DoSize(this).out = RetNum(adds - removes)

C7_ConcatMerges ==
    Called("concat") =>
        /\ last.out = Void
        /\ StoredKeys(Before) \subseteq StoredKeys(this)
        /\ \A j \in 1..Len(ForEach(last.other)) :
              LET e == ForEach(last.other)[j]
              IN  e.key \notin StoredKeys(Before) =>
                      DoGet(this, e.key).out = Ret(e.value)
        /\ DoSize(this).out =
              RetNum(Cardinality(StoredKeys(Before) \cup StoredKeys(last.other)))

\* what equals is to return: the sizes agree and every entry of other is
\* stored here under the same key with an equal value
EqualValues(compare, x, y) ==
    IF compare = "none" THEN x = y ELSE Compare(compare, x, y)

SameEntries(c, other, compare) ==
    /\ Len(ForEach(c)) = Len(ForEach(other))
    /\ \A j \in 1..Len(ForEach(other)) :
          LET e == ForEach(other)[j]
          IN  /\ e.key \in StoredKeys(c)
              /\ EqualValues(compare, ItemValue(c.items, e.key), e.value)

\* C8: equals returns true exactly when both collections have the same
\* size and every entry of other is stored here with an equal value (by
\* compare when given, by identity otherwise), and false otherwise.
C8_EqualsIffSameEntries ==
    Called("equals") =>
        last.out = RetBool(SameEntries(this, last.other, last.compare))

\* C9: a Map and a GuardedMap that hold the same key/value pairs, added in
\* different orders, are equal in both directions.
C9_EqualsAcrossVariants ==
    ( /\ Called("equals")
      /\ last.compare = "none"
      /\ this.variant # last.other.variant
      /\ ForEach(this) # ForEach(last.other)
      /\ {ForEach(this)[i] : i \in 1..Len(ForEach(this))}
           = {ForEach(last.other)[j] : j \in 1..Len(ForEach(last.other))} )
    => last.out = RetBool(TRUE)

\* C10: equals never throws, whatever the two collections and the compare.
C10_EqualsNeverFails ==
    Called("equals") => last.out.status = "return"

\* what the caller did last was to change a conversion result it holds
Mutated == last.op \in {"push", "pop", "write", "assign"}

\* C11: a conversion result is an independent copy: changing it (a push or
\* pop on the array, a write to one of its records or properties) leaves the
\* source as it was, and a later add, set or remove on the source leaves a
\* result returned earlier as it was.
C11_ConversionResultsAreCopies ==
    /\ Mutated => this.items = last.pre
    /\ (last.op \in {"add", "set", "remove"} /\ last.held.kind # "none") =>
           held.items = last.held.items

\* the collection of the variant of this that the factory makes of this
\* collection's plain object
RoundTrip == FromBasicMap(this.variant, DoToBasicMap(this).obj)

\* C12: for a collection of either variant that holds no function as a
\* value, toBasicMap succeeds, the factory makes a collection of the same
\* variant of the plain object, and equals of the two returns true.
C12_BasicMapRoundTrip ==
    (Called("toBasicMap") /\ \A i \in 1..Len(this.items) : this.items[i].value # Fn) =>
        /\ last.out.status = "return"
        /\ RoundTrip.out.status = "return"
        /\ DoEquals(this, [variant |-> this.variant, items |-> RoundTrip.obj],
                    "none").out = RetBool(TRUE)

\* the entries of a sequence of records, as a set
EntrySet(items) == {items[i] : i \in 1..Len(items)}

\* g.toMap().toGuardedMap() for the GuardedMap this
ThereAndBack ==
    DoToGuardedMap([variant |-> "Map", items |-> DoToMap(this).obj])

\* C13: for a GuardedMap g, g.toMap().toGuardedMap() is made without a
\* failure and holds exactly the key/value entries of g.
C13_ToMapAndBack ==
    (Called("toMap") /\ ~IsMap(this)) =>
        /\ last.out.status = "return"
        /\ ThereAndBack.out.status = "return"
        /\ Len(ThereAndBack.obj) = Len(this.items)
        /\ EntrySet(ThereAndBack.obj) = EntrySet(this.items)

\* C14: toMap on a GuardedMap and toGuardedMap on a Map never fail, and the
\* collection they return holds every entry of the source.
C14_VariantConversionsNeverFail ==
    (Called("toMap") \/ Called("toGuardedMap")) =>
        /\ last.out.status = "return"
        /\ EntrySet(ForEach(this)) \subseteq EntrySet(held.items)

\* C15: on a GuardedMap keysToArray lists the stored keys in the order of
\* their latest successful add: add puts the key last, set moves nothing,
\* remove takes its key out and keeps the order of the others, and a call
\* that fails changes nothing.
C15_GuardedOrderIsInsertionOrder ==
    (~IsMap(this) /\ last.op \in {"add", "set", "remove"}) =>
        GuardedKeysToArray(this.items) =
            IF last.out.status = "throw" THEN GuardedKeysToArray(last.pre)
            ELSE IF Called("add")
            THEN Append(GuardedKeysToArray(last.pre), last.key)
            ELSE IF Called("set") THEN GuardedKeysToArray(last.pre)
            ELSE SelectSeq(GuardedKeysToArray(last.pre),
                           LAMBDA k : k # last.key)

\* set has changed the value of the first of three entries
C15_Witness ==
    /\ ~IsMap(this) /\ Called("set") /\ last.out = Void
    /\ Len(this.items) = 3
    /\ this.items[1].key = last.key
    /\ last.pre[1].value # last.value

\* C16: on a GuardedMap, once add(k, v) has stored a falsy v, includesKey(k)
\* is true, get(k) returns v, set(k, w) and remove(k) succeed and a second
\* add(k, w) fails with KeyConflict.
C16_GuardedHoldsFalsyValues ==
    (~IsMap(this) /\ Called("add") /\ last.out = Void /\ ~Truthy(last.value)) =>
        /\ DoIncludesKey(this, last.key).out = RetBool(TRUE)
        /\ DoGet(this, last.key).out = Ret(last.value)
        /\ DoRemove(this, last.key).out = Void
        /\ ~HasKey(DoRemove(this, last.key).items, last.key)
        /\ \A w \in Values :
               /\ DoSet(this, last.key, w).out = Void
               /\ DoGet([this EXCEPT !.items = DoSet(this, last.key, w).items],
                        last.key).out = Ret(w)
               /\ DoAdd(this, last.key, w) = Result(this.items, Throw("KeyConflict"))

\* add has stored 0 under a key next to another entry
C16_Witness ==
    /\ ~IsMap(this) /\ Called("add") /\ last.out = Void
    /\ last.value = "0" /\ Len(this.items) = 2

\* C17: the same calls of add, get, set, remove, includesKey and size on an
\* empty Map and an empty GuardedMap end alike call by call (same value
\* returned or same failure) and leave the same entries in both.
C17_VariantsAgree ==
    (twin # NoTwin /\ ~Idle) =>
        /\ last.out = last.twinOut
        /\ EntrySet(ForEach(this)) = EntrySet(ForEach(twin))

\* value and an entry's value are equal: as compare says when it is
\* supplied, identical when it is omitted
EqualTo(e, value, compare) ==
    IF compare = "none" THEN e.value = value
    ELSE Compare(compare, e.value, value)

\* C18: includes(value, compare) returns true exactly when the value of
\* some stored entry equals value, by compare when it is supplied and by
\* identity when it is omitted; an entry compare says no to is no match.
C18_IncludesIffSomeEntryEquals ==
    Called("includes") =>
        last.out = RetBool(\E e \in EntrySet(ForEach(this)) :
                               EqualTo(e, last.value, last.compare))

\* the entries of this, in iteration order, whose value equals value
EqualEntries(value, compare) ==
    SelectSeq(ForEach(this), LAMBDA e : EqualTo(e, value, compare))

\* C19: keyOf(value, compare) returns the key of the first entry in
\* iteration order whose value equals value and null when there is none;
\* it is not null exactly when includes, given the same, returns true.
C19_KeyOfFirstEqualEntry ==
    Called("keyOf") =>
        /\ last.out =
               IF EqualEntries(last.value, last.compare) = <<>> THEN Null
               ELSE Ret(Head(EqualEntries(last.value, last.compare)).key)
        /\ (last.out # Null) <=>
               (DoIncludes(this, last.value, last.compare).out = RetBool(TRUE))

\* the key the element at index i is to be found under
IndexKey(i, keyPrefix) ==
    IF keyPrefix = Undefined THEN IndexToString(i) ELSE IndexToString(i) \o keyPrefix

Elements(seq) == {seq[i] : i \in 1..Len(seq)}

\* C21: on a Map, once add(k, v) has stored a falsy v, includesKey(k) is
\* false, get(k), set(k, w) and remove(k) fail with KeyNotFound and change
\* nothing, a second add(k, w) succeeds and puts w in the place of v, and
\* size() and keysToArray() count k as an entry.
C21_MapTakesFalsyForAbsent ==
    (IsMap(this) /\ Called("add") /\ last.out = Void /\ ~Truthy(last.value)) =>
        /\ DoIncludesKey(this, last.key).out = RetBool(FALSE)
        /\ DoGet(this, last.key) = Result(this.items, Throw("KeyNotFound"))
        /\ DoRemove(this, last.key) = Result(this.items, Throw("KeyNotFound"))
        /\ \A w \in Values :
               /\ DoSet(this, last.key, w) = Result(this.items, Throw("KeyNotFound"))
               /\ DoAdd(this, last.key, w).out = Void
               /\ ItemValue(DoAdd(this, last.key, w).items, last.key) = w
               /\ Len(DoAdd(this, last.key, w).items) = Len(this.items)
        /\ DoKeysToArray(this).out.status = "return"
        /\ last.key \in Elements(DoKeysToArray(this).obj)
        /\ DoSize(this).out = RetNum(Len(DoKeysToArray(this).obj))

\* no two records of a sequence carry the same key
DistinctKeys(items) ==
    \A i, j \in 1..Len(items) : items[i].key = items[j].key => i = j

\* C22: in a GuardedMap no two records of _elements carry the same key and
\* size() is the number of distinct stored keys, whatever calls were made
\* and whatever the caller did to the results of the reads.
C22_GuardedKeysAreUnique ==
    ~IsMap(this) =>
        /\ DistinctKeys(this.items)
        /\ DoSize(this).out = RetNum(Cardinality(KeysOf(this.items)))

\* C23: in a Map the operations are never stored data and never damaged:
\* whatever add, set, remove and concat calls were made, every operation is
\* still the method the class gave it, no key that names an operation
\* counts as an entry, and get on such a key fails with TypeMismatch.
C23_MapOperationsStayIntact ==
    IsMap(this) =>
        /\ \A m \in MapMethods : MapLookup(this.items, m) = Fn
        /\ KeysOf(MapForEach(this.items)) \cap MapMethods = {}
        /\ (Called("get") /\ last.key \in MapMethods) =>
               last.out = Throw("TypeMismatch")

\* C24: on either variant set(k, v) on a stored key k succeeds and changes
\* the value of k alone: get(k) returns v afterwards, size() and the set of
\* stored keys are what they were, and every other key holds the value it
\* held.
C24_SetChangesOneValue ==
    (Called("set") /\ last.key \in StoredKeys(Before)) =>
        /\ last.out = Void
        /\ DoGet(this, last.key).out = Ret(last.value)
        /\ DoSize(this).out = DoSize(Before).out
        /\ StoredKeys(this) = StoredKeys(Before)
        /\ \A k \in StoredKeys(Before) \ {last.key} :
               ItemValue(this.items, k) = ItemValue(last.pre, k)

\* C25: in every state of either variant keysToArray(), valuesToArray()
\* and toObjectsArray() return arrays of length size() that list the entries
\* in the order forEach visits them, each entry once; place i of
\* toObjectsArray() is the key at place i of keysToArray() with the value at
\* place i of valuesToArray(), which is what get returns for the key when
\* get succeeds.
C25_ViewsAgree ==
    LET keys == DoKeysToArray(this)
        values == DoValuesToArray(this)
        objects == DoToObjectsArray(this)
    IN  /\ keys.out.status = "return"
        /\ values.out.status = "return"
        /\ objects.out.status = "return"
        /\ Callable(this, "forEach")
        /\ DoSize(this).out = RetNum(Len(keys.obj))
        /\ Len(values.obj) = Len(keys.obj)
        /\ objects.obj = ForEach(this)
        /\ DistinctKeys(objects.obj)
        /\ \A i \in 1..Len(objects.obj) :
               /\ i <= Len(keys.obj) /\ i <= Len(values.obj)
               /\ objects.obj[i] = Entry(keys.obj[i], values.obj[i])
               /\ DoGet(this, keys.obj[i]).out.status = "return" =>
                      DoGet(this, keys.obj[i]).out = Ret(values.obj[i])
====
